---- MODULE Spec2Model ----
(***************************************************************************)
(* Model of anaya_libros: src/src/main.py.  main() loads the configuration, *)
(* creates a browser session, runs collect_images over the configured      *)
(* documents and hands the captured image paths to images_to_pdf.  The     *)
(* browser and the file system are the environment: what a wait, a lookup  *)
(* or an Image.open returns is a nondeterministic choice.                  *)
(***************************************************************************)
EXTENDS Integers, Sequences, FiniteSets, TLC

\* ------------------------------------------------------------------ bounds
MaxDocs == 2      \* documents in the `links` mapping
MaxPages == 2     \* pages a document has at most
MaxSections == 3  \* pageSection elements per page
MaxImages == 5    \* captures per run / entries of a list given to images_to_pdf
MaxFiles == 3     \* distinct image paths in a list given to images_to_pdf directly

\* --------------------------------------------------------------- constants
BASE_DIR == "output"
IMAGES_DIR == "output/images"
PDF_FILENAME == "result.pdf"

\* A string is modelled as the sequence of its characters.
DISABLED == <<"d", "i", "s", "a", "b", "l", "e", "d">>

\* Values the class attribute of the Next control takes in the model.
ClassValues ==
    { <<>>,
      <<"b", "t", "n">>,
      <<"d", "i", "s", "a", "b", "l", "e">>,
      DISABLED,
      <<"b", "t", "n", " ">> \o DISABLED,
      <<"n", "o", "t", "-">> \o DISABLED \o <<"-", "x">> }

\* Python's `needle in text` for strings: some slice of text equals needle.
StrIn(needle, text) ==
    \E i \in 1..(Len(text) + 1) :
        /\ i + Len(needle) - 1 <= Len(text)
        /\ SubSeq(text, i, i + Len(needle) - 1) = needle

\* f"{n:04}": the decimal digits of n, zero-padded on the left to width 4.
RECURSIVE Digits(_)
Digits(n) == IF n < 10 THEN <<n>> ELSE Append(Digits(n \div 10), n % 10)

ZeroPad(s, w) ==
    IF Len(s) >= w THEN s
    ELSE [i \in 1..w |-> IF i <= w - Len(s) THEN 0 ELSE s[i - (w - Len(s))]]

Format04(n) == ZeroPad(Digits(n), 4)

\* os.path.join(IMAGES_DIR, f"{global_step:04}.png")
ImgPath(n) == [dir |-> IMAGES_DIR, stem |-> Format04(n), ext |-> "png"]

\* os.path.join(BASE_DIR, PDF_FILENAME)
PdfPath == [dir |-> BASE_DIR, file |-> PDF_FILENAME]

\* The URL configured for document name d.
Url(d) == <<"https://example.com", d>>

\* Ordered mappings name -> url with distinct keys, at most MaxDocs entries.
Mappings ==
    { m \in UNION { [1..k -> [name : 1..MaxDocs, url : {Url(d) : d \in 1..MaxDocs}]]
                    : k \in 0..MaxDocs } :
        /\ \A i \in DOMAIN m : m[i].url = Url(m[i].name)
        /\ \A i, j \in DOMAIN m : m[i].name = m[j].name => i = j }

\* The configuration resource configs/<name>.yaml.
Configs ==
    { [exists |-> FALSE, has_links |-> FALSE, links |-> <<>>],
      [exists |-> TRUE, has_links |-> FALSE, links |-> <<>>] }
    \cup { [exists |-> TRUE, has_links |-> TRUE, links |-> m] : m \in Mappings }

\* A file left at the output path by an earlier run.
StalePdf == << [src |-> ImgPath(0), mode |-> "RGB"] >>

VARIABLES
    config,       \* the configuration resource
    pdf_before,   \* the file at the output path when the run starts (<<>> = none)
    pdf_file,     \* the file at the output path: <<>> = none, <<pages>> = a PDF
    pdf_writes,   \* number of writes to the output path
    LINKS,        \* module global LINKS
    driver,       \* "none", "open", "quit"
    pc,           \* position of the run
    err,          \* the exception that is propagating / ended the run
    docIdx,       \* position of `for name, url in LINKS.items()`
    page,         \* page of the document the browser shows
    sections,     \* number of elements find_elements returned
    secIdx,       \* position of `for section in sections`
    all_images,   \* collect_images' result list
    global_step,  \* collect_images' counter
    classes,      \* class attribute read from the Next control
    returned,     \* collect_images has returned
    images,       \* the list main / the caller passes to images_to_pdf
    pil_images,   \* images opened and converted so far
    unreadable,   \* image paths that are missing or cannot be read
    ops,          \* session operations issued, in order
    captures,     \* one entry per screenshot: document, page, section, path
    shown         \* shown[d][p]: sections the browser showed on page p of the d-th document

vars == << config, pdf_before, pdf_file, pdf_writes, LINKS, driver, pc, err, docIdx,
           page, sections, secIdx, all_images, global_step, classes, returned,
           images, pil_images, unreadable, ops, captures, shown >>

fileVars == << pdf_before, pdf_file, pdf_writes >>
loopVars == << docIdx, page, sections, secIdx, all_images, global_step, classes >>
pdfVars == << images, pil_images, unreadable >>
logVars == << ops, captures, shown >>

Init ==
    /\ config \in Configs
    /\ pdf_before \in { <<>>, <<StalePdf>> }
    /\ pdf_file = pdf_before
    /\ pdf_writes = 0
    /\ LINKS = <<>>
    /\ driver = "none"
    /\ pc = "load_config"
    /\ err = "none"
    /\ docIdx = 0
    /\ page = 0
    /\ sections = 0
    /\ secIdx = 0
    /\ all_images = <<>>
    /\ global_step = 0
    /\ classes = <<>>
    /\ returned = FALSE
    /\ images = <<>>
    /\ pil_images = <<>>
    /\ unreadable = {}
    /\ ops = <<>>
    /\ captures = <<>>
    /\ shown = <<>>

\* ------------------------------------------------------------------- main

\* A mutant that returns the entries sorted by name.
ConfigGetLinks_sorted(c) ==
    IF c.has_links
    THEN CHOOSE m \in Mappings :
            /\ Len(m) = Len(c.links)
            /\ \A i \in DOMAIN m : \E j \in DOMAIN c.links : m[i] = c.links[j]
            /\ \A i, j \in DOMAIN m : i < j => m[i].name < m[j].name
    ELSE <<>>

\* config.get("links", {})
ConfigGetLinks(c) == IF c.has_links THEN c.links ELSE <<>>

\* A mutant that answers a missing resource with an empty mapping.
ConfigMissing_empty ==
    /\ LINKS' = <<>>
    /\ pc' = "create_driver"
    /\ err' = err

\* if not os.path.exists(config_path): raise FileNotFoundError(...)
\* The exception leaves main before the session is created.
ConfigMissing ==
    /\ err' = "ConfigNotFound"
    /\ pc' = "exit"
    /\ LINKS' = LINKS

\* LINKS = load_config(args.config)
Main_LoadConfig ==
    /\ pc = "load_config"
    /\ IF ~config.exists
       THEN ConfigMissing
       ELSE /\ LINKS' = ConfigGetLinks(config)
            /\ pc' = "create_driver"
            /\ err' = err
    /\ UNCHANGED << config, fileVars, driver, loopVars, returned, pdfVars, logVars >>

\* os.makedirs(BASE_DIR); driver = create_driver()
Main_CreateDriver ==
    /\ pc = "create_driver"
    /\ driver' = "open"
    /\ pc' = "maximize"
    /\ UNCHANGED << config, fileVars, LINKS, err, loopVars, returned, pdfVars, logVars >>

\* Where control goes when driver.maximize_window() raises.
MaximizeRaises ==
    /\ err' = "WebDriverError"
    /\ pc' = "exit"

\* driver.maximize_window()
Main_Maximize ==
    /\ pc = "maximize"
    /\ ops' = Append(ops, <<"maximize_window">>)
    /\ \/ /\ pc' = "collect"
          /\ err' = err
       \/ MaximizeRaises
    /\ UNCHANGED << config, fileVars, LINKS, driver, loopVars, returned, pdfVars,
                    captures, shown >>

\* ---------------------------------------------------------- collect_images

\* An exception raised inside main's try block: control goes to the finally clause.
Raise(e) ==
    /\ err' = e
    /\ pc' = "finally"

\* A mutant whose break starts the same document again.
BreakLoop_again ==
    /\ docIdx' = docIdx
    /\ pc' = "for"

\* `break` out of `while True`: the for loop goes on with the next document.
BreakLoop ==
    /\ docIdx' = docIdx + 1
    /\ pc' = "for"

\* A mutant that leaves the counter alone.
NextStep_keep(g) == g

\* global_step += 1
NextStep(g) == g + 1

Min(a, b) == IF a <= b THEN a ELSE b

\* images = collect_images(driver): all_images = [], global_step = 1
Collect_Begin ==
    /\ pc = "collect"
    /\ all_images' = <<>>
    /\ global_step' = 1
    /\ docIdx' = 1
    /\ pc' = "for"
    /\ UNCHANGED << config, fileVars, LINKS, driver, err, page, sections, secIdx,
                    classes, returned, pdfVars, logVars >>

\* The counter of a mutant that starts every document at 1 again.
LoadDocument_reset ==
    /\ ops' = Append(ops, <<"get", LINKS[docIdx].url>>)
    /\ page' = 1
    /\ shown' = Append(shown, <<>>)
    /\ pc' = "wait"
    /\ global_step' = 1

\* The body of the for loop starts: print(...); driver.get(url).  global_step is
\* initialised before the loop and not inside it.
LoadDocument ==
    /\ ops' = Append(ops, <<"get", LINKS[docIdx].url>>)
    /\ page' = 1
    /\ shown' = Append(shown, <<>>)
    /\ pc' = "wait"
    /\ global_step' = global_step

\* for name, url in LINKS.items(): driver.get(url)   /   return all_images
Collect_For ==
    /\ pc = "for"
    /\ IF docIdx <= Len(LINKS)
       THEN /\ LoadDocument
            /\ UNCHANGED << returned, images >>
       ELSE /\ returned' = TRUE
            /\ images' = all_images
            /\ pc' = "images_to_pdf"
            /\ UNCHANGED << ops, page, shown, global_step >>
    /\ UNCHANGED << config, fileVars, LINKS, driver, err, docIdx, sections, secIdx,
                    all_images, classes, pil_images, unreadable, captures >>

\* A mutant that loads the document again after a timeout.
WaitTimesOut_retry ==
    /\ docIdx' = docIdx
    /\ pc' = "for"
    /\ err' = err

\* A mutant that gives up the document and goes on with the next one.
WaitTimesOut_skip ==
    /\ docIdx' = docIdx + 1
    /\ pc' = "for"
    /\ err' = err

\* wait.until raises TimeoutException; nothing in collect_images catches it.
WaitTimesOut ==
    /\ Raise("NavigationTimeout")
    /\ docIdx' = docIdx

\* wait.until(presence_of_element_located("div.content")); time.sleep(1)
Collect_Wait ==
    /\ pc = "wait"
    /\ \/ /\ ops' = ops \o << <<"wait">>, <<"sleep">> >>
          /\ pc' = "find"
          /\ err' = err
          /\ docIdx' = docIdx
       \/ /\ ops' = Append(ops, <<"wait">>)
          /\ WaitTimesOut
    /\ UNCHANGED << config, fileVars, LINKS, driver, page, sections, secIdx,
                    all_images, global_step, classes, returned, pdfVars,
                    captures, shown >>

\* A mutant that goes on to the Next control on an empty page.
EmptyPage_checknext ==
    /\ docIdx' = docIdx
    /\ pc' = "find_next"
    /\ err' = err

\* A mutant that returns from collect_images at the first empty page.
EmptyPage_return ==
    /\ docIdx' = Len(LINKS) + 1
    /\ pc' = "for"
    /\ err' = err

\* if not sections: print("No pageSection elements found"); break
EmptyPage ==
    /\ BreakLoop
    /\ err' = err

\* content = driver.find_element(...); sections = content.find_elements(...)
\* if not sections: break
Collect_Find ==
    /\ pc = "find"
    /\ \/ /\ ops' = Append(ops, <<"find_content">>)
          /\ Raise("ElementNotFound")
          /\ UNCHANGED << docIdx, sections, secIdx, shown >>
       \/ \E n \in 0..Min(MaxSections, MaxImages - Len(all_images)) :
            /\ ops' = ops \o << <<"find_content">>, <<"find_sections">> >>
            /\ sections' = n
            /\ shown' = [shown EXCEPT ![docIdx] = Append(@, n)]
            /\ IF n = 0
               THEN /\ EmptyPage
                    /\ secIdx' = secIdx
               ELSE /\ secIdx' = 1
                    /\ pc' = "shot"
                    /\ docIdx' = docIdx
                    /\ err' = err
    /\ UNCHANGED << config, fileVars, LINKS, driver, page, all_images, global_step,
                    classes, returned, pdfVars, captures >>

\* A mutant that puts the newest image first.
AppendImage_front(list, img_path) == <<img_path>> \o list

\* all_images.append(img_path)
AppendImage(list, img_path) == Append(list, img_path)

\* for section in sections: screenshot, append, global_step += 1
Collect_Shot ==
    /\ pc = "shot"
    /\ LET img_path == ImgPath(global_step)
       IN /\ ops' = Append(ops, <<"screenshot", img_path>>)
          /\ all_images' = AppendImage(all_images, img_path)
          /\ captures' = Append(captures, [doc |-> docIdx, page |-> page,
                                           sec |-> secIdx, path |-> img_path])
    /\ global_step' = NextStep(global_step)
    /\ IF secIdx < sections
       THEN /\ secIdx' = secIdx + 1
            /\ pc' = "shot"
       ELSE /\ secIdx' = secIdx
            /\ pc' = "find_next"
    /\ UNCHANGED << config, fileVars, LINKS, driver, err, docIdx, page, sections,
                    classes, returned, pdfVars, shown >>

\* A mutant that takes a missing Next control for the end of the document.
NextAbsent_break ==
    /\ docIdx' = docIdx + 1
    /\ pc' = "for"
    /\ err' = err

\* driver.find_element(By.ID, "page_next") raises NoSuchElementException; nothing
\* in collect_images catches it.
NextAbsent ==
    /\ Raise("ElementNotFound")
    /\ docIdx' = docIdx

\* next_btn = driver.find_element(By.ID, "page_next")
\* classes = next_btn.get_attribute("class")
\* The browser shows finite documents: on page MaxPages the control is absent or
\* its class contains "disabled".
Collect_FindNext ==
    /\ pc = "find_next"
    /\ ops' = Append(ops, <<"find_next">>)
    /\ \/ /\ NextAbsent
          /\ classes' = classes
       \/ \E c \in ClassValues :
            /\ page < MaxPages \/ StrIn(DISABLED, c)
            /\ classes' = c
            /\ pc' = "test_next"
            /\ err' = err
            /\ docIdx' = docIdx
    /\ UNCHANGED << config, fileVars, LINKS, driver, page, sections, secIdx,
                    all_images, global_step, returned, pdfVars, captures, shown >>

\* A mutant that inverts the test.
NextIsDisabled_negated(c) == ~StrIn(DISABLED, c)

\* A mutant that compares the whole attribute with "disabled".
NextIsDisabled_exact(c) == c = DISABLED

\* if "disabled" in classes: break
NextIsDisabled(c) == StrIn(DISABLED, c)

\* The test of the Next control's state.  classes is not read again after the
\* test, so the model forgets it when the loop ends.
Collect_TestNext ==
    /\ pc = "test_next"
    /\ IF NextIsDisabled(classes)
       THEN /\ BreakLoop
            /\ classes' = <<>>
       ELSE /\ pc' = "click"
            /\ docIdx' = docIdx
            /\ classes' = classes
    /\ UNCHANGED << config, fileVars, LINKS, driver, err, page, sections, secIdx,
                    all_images, global_step, returned, pdfVars, logVars >>

\* A mutant that looks for sections right after the click.
AfterClick_nowait == pc' = "find"

\* wait.until(...); time.sleep(1) after the click, as after driver.get
AfterClick == pc' = "wait"

\* next_btn.click()
Collect_Click ==
    /\ pc = "click"
    /\ ops' = Append(ops, <<"click">>)
    /\ page' = page + 1
    /\ classes' = <<>>
    /\ AfterClick
    /\ UNCHANGED << config, fileVars, LINKS, driver, err, docIdx, sections, secIdx,
                    all_images, global_step, returned, pdfVars, captures, shown >>

\* ----------------------------------------------------------- images_to_pdf

\* Image.open(img).convert("RGB")
OpenRgb(img) == [src |-> img, mode |-> "RGB"]

\* A mutant that saves the images opened so far before it fails.
OpenFails_partial ==
    /\ Raise("ImageReadFailure")
    /\ pdf_file' = <<pil_images>>
    /\ pdf_writes' = pdf_writes + 1

\* A mutant that swallows the failure and returns without a PDF.
OpenFails_ignore ==
    /\ pc' = "print"
    /\ err' = err
    /\ UNCHANGED << pdf_file, pdf_writes >>

\* Image.open raises FileNotFoundError inside the list comprehension: line 95 is
\* not reached.
OpenFails ==
    /\ Raise("ImageReadFailure")
    /\ UNCHANGED << pdf_file, pdf_writes >>

\* pil_images = [Image.open(img).convert("RGB") for img in images], one image a step
\* An image is readable or not by the time it is opened: a path that is known to
\* be unreadable fails, any other may be found missing when it is opened.
Pdf_Open ==
    /\ pc = "images_to_pdf"
    /\ Len(pil_images) < Len(images)
    /\ LET img == images[Len(pil_images) + 1]
       IN \/ /\ img \notin unreadable
             /\ pil_images' = Append(pil_images, OpenRgb(img))
             /\ unreadable' = unreadable
             /\ pc' = pc
             /\ err' = err
             /\ UNCHANGED << pdf_file, pdf_writes >>
          \/ /\ OpenFails
             /\ unreadable' = unreadable \cup {img}
             /\ pil_images' = pil_images
    /\ UNCHANGED << config, pdf_before, LINKS, driver, loopVars, returned, images,
                    logVars >>

\* A mutant that creates the output file before it reads pil_images[0].
SaveEmpty_touch ==
    /\ Raise("EmptyInput")
    /\ pdf_file' = << <<>> >>
    /\ pdf_writes' = pdf_writes + 1

\* A mutant of main that quits the session only when the run succeeded.
Main_Finally_onsuccess ==
    /\ pc = "finally"
    /\ driver' = IF err = "none" THEN "quit" ELSE driver
    /\ ops' = IF err = "none" THEN Append(ops, <<"quit">>) ELSE ops
    /\ pc' = "exit"
    /\ UNCHANGED << config, fileVars, LINKS, err, loopVars, returned, pdfVars,
                    captures, shown >>

\* A mutant that forgets save_all and append_images.
PdfPages_first(first, rest) == <<first>>

\* first.save(pdf_path, save_all=True, append_images=rest): the pages of the PDF.
PdfPages(first, rest) == <<first>> \o rest

\* What the save of line 95 does for an empty pil_images: pil_images[0] raises.
SaveEmpty ==
    /\ Raise("EmptyInput")
    /\ UNCHANGED << pdf_file, pdf_writes >>

\* pil_images[0].save(pdf_path, save_all=True, append_images=pil_images[1:])
Pdf_Save ==
    /\ pc = "images_to_pdf"
    /\ Len(pil_images) = Len(images)
    /\ IF pil_images = <<>>
       THEN SaveEmpty
       ELSE /\ pdf_file' = << PdfPages(Head(pil_images), Tail(pil_images)) >>
            /\ pdf_writes' = pdf_writes + 1
            /\ pc' = "print"
            /\ err' = err
    /\ UNCHANGED << config, pdf_before, LINKS, driver, loopVars, returned, pdfVars,
                    logVars >>

\* print(f"PDF successfully created: {pdf_path}")
Main_Print ==
    /\ pc = "print"
    /\ pc' = "finally"
    /\ UNCHANGED << config, fileVars, LINKS, driver, err, loopVars, returned, pdfVars,
                    logVars >>

\* finally: driver.quit()
Main_Finally ==
    /\ pc = "finally"
    /\ driver' = "quit"
    /\ ops' = Append(ops, <<"quit">>)
    /\ pc' = "exit"
    /\ UNCHANGED << config, fileVars, LINKS, err, loopVars, returned, pdfVars,
                    captures, shown >>

Next ==
    \/ Main_LoadConfig
    \/ Main_CreateDriver
    \/ Main_Maximize
    \/ Collect_Begin
    \/ Collect_For
    \/ Collect_Wait
    \/ Collect_Find
    \/ Collect_Shot
    \/ Collect_FindNext
    \/ Collect_TestNext
    \/ Collect_Click
    \/ Pdf_Open
    \/ Pdf_Save
    \/ Main_Print
    \/ Main_Finally

Spec == Init /\ [][Next]_vars

\* The program is one thread and every call it blocks on returns or raises (the
\* explicit wait gives up after its timeout), so a statement that can run does.
SpecFair == Spec /\ WF_vars(Next)

\* ------------------------------------------- images_to_pdf called directly

\* The image paths a direct caller passes.
FilePaths == {ImgPath(n) : n \in 1..MaxFiles}

\* Lists of at most MaxImages paths, in any order and with repeats.
PathLists ==
    UNION { [1..k -> FilePaths] : k \in 0..MaxImages }

InitPdf ==
    /\ config = [exists |-> FALSE, has_links |-> FALSE, links |-> <<>>]
    /\ pdf_before \in { <<>>, <<StalePdf>> }
    /\ pdf_file = pdf_before
    /\ pdf_writes = 0
    /\ LINKS = <<>>
    /\ driver = "none"
    /\ pc = "images_to_pdf"
    /\ err = "none"
    /\ docIdx = 0
    /\ page = 0
    /\ sections = 0
    /\ secIdx = 0
    /\ all_images = <<>>
    /\ global_step = 0
    /\ classes = <<>>
    /\ returned = FALSE
    /\ images \in PathLists
    /\ pil_images = <<>>
    /\ unreadable \in SUBSET FilePaths
    /\ ops = <<>>
    /\ captures = <<>>
    /\ shown = <<>>

NextPdf ==
    \/ Pdf_Open
    \/ Pdf_Save

SpecPdf == InitPdf /\ [][NextPdf]_vars

----------------------------------------------------------------------------
\* The earlier entry point, src/main.py.  Its LINKS is a module-level literal and
\* it has no load_config; the rest is translated here statement by statement, on
\* the same variables.

\* LINKS = {"doc_1": ..., "doc_2": ...}
OLD_LINKS == << [name |-> 1, url |-> Url(1)], [name |-> 2, url |-> Url(2)] >>

\* driver = create_driver()
Old_CreateDriver ==
    /\ pc = "create_driver"
    /\ driver' = "open"
    /\ pc' = "maximize"
    /\ UNCHANGED << config, fileVars, LINKS, err, loopVars, returned, pdfVars, logVars >>

\* driver.maximize_window(), before the try statement
Old_Maximize ==
    /\ pc = "maximize"
    /\ ops' = Append(ops, <<"maximize_window">>)
    /\ \/ pc' = "collect" /\ err' = err
       \/ pc' = "exit" /\ err' = "WebDriverError"
    /\ UNCHANGED << config, fileVars, LINKS, driver, loopVars, returned, pdfVars,
                    captures, shown >>

\* images = collect_images(driver): all_images = [], global_step = 1
Old_Begin ==
    /\ pc = "collect"
    /\ all_images' = <<>>
    /\ global_step' = 1
    /\ docIdx' = 1
    /\ pc' = "for"
    /\ UNCHANGED << config, fileVars, LINKS, driver, err, page, sections, secIdx,
                    classes, returned, pdfVars, logVars >>

\* for name, url in LINKS.items(): driver.get(url)   /   return all_images
Old_For ==
    /\ pc = "for"
    /\ \/ /\ docIdx <= Len(LINKS)
          /\ ops' = Append(ops, <<"get", LINKS[docIdx].url>>)
          /\ shown' = Append(shown, <<>>)
          /\ page' = 1
          /\ pc' = "wait"
          /\ UNCHANGED << returned, images >>
       \/ /\ docIdx > Len(LINKS)
          /\ returned' = TRUE
          /\ images' = all_images
          /\ pc' = "images_to_pdf"
          /\ UNCHANGED << ops, shown, page >>
    /\ UNCHANGED << config, fileVars, LINKS, driver, err, docIdx, sections, secIdx,
                    all_images, global_step, classes, pil_images, unreadable,
                    captures >>

\* wait.until(...); time.sleep(1), after driver.get and after next_btn.click()
Old_Wait ==
    /\ pc = "wait"
    /\ \/ /\ ops' = ops \o << <<"wait">>, <<"sleep">> >>
          /\ pc' = "find"
          /\ err' = err
       \/ /\ ops' = Append(ops, <<"wait">>)
          /\ pc' = "finally"
          /\ err' = "NavigationTimeout"
    /\ UNCHANGED << config, fileVars, LINKS, driver, loopVars, returned, pdfVars,
                    captures, shown >>

\* content = driver.find_element(...); sections = content.find_elements(...)
\* if not sections: break
Old_Find ==
    /\ pc = "find"
    /\ \/ /\ ops' = Append(ops, <<"find_content">>)
          /\ pc' = "finally"
          /\ err' = "ElementNotFound"
          /\ UNCHANGED << docIdx, sections, secIdx, shown >>
       \/ \E n \in 0..Min(MaxSections, MaxImages - Len(all_images)) :
            /\ ops' = ops \o << <<"find_content">>, <<"find_sections">> >>
            /\ sections' = n
            /\ shown' = [shown EXCEPT ![docIdx] = Append(@, n)]
            /\ err' = err
            /\ \/ n = 0 /\ pc' = "for" /\ docIdx' = docIdx + 1 /\ secIdx' = secIdx
               \/ n > 0 /\ pc' = "shot" /\ docIdx' = docIdx /\ secIdx' = 1
    /\ UNCHANGED << config, fileVars, LINKS, driver, page, all_images, global_step,
                    classes, returned, pdfVars, captures >>

\* for section in sections: section.screenshot(img_path);
\* all_images.append(img_path); global_step += 1
Old_Shot ==
    /\ pc = "shot"
    /\ ops' = Append(ops, <<"screenshot", ImgPath(global_step)>>)
    /\ all_images' = all_images \o << ImgPath(global_step) >>
    /\ captures' = Append(captures, [doc |-> docIdx, page |-> page, sec |-> secIdx,
                                     path |-> ImgPath(global_step)])
    /\ global_step' = global_step + 1
    /\ secIdx' = IF secIdx < sections THEN secIdx + 1 ELSE secIdx
    /\ pc' = IF secIdx < sections THEN "shot" ELSE "find_next"
    /\ UNCHANGED << config, fileVars, LINKS, driver, err, docIdx, page, sections,
                    classes, returned, pdfVars, shown >>

\* next_btn = driver.find_element(By.ID, "page_next")
\* classes = next_btn.get_attribute("class")
Old_FindNext ==
    /\ pc = "find_next"
    /\ ops' = Append(ops, <<"find_next">>)
    /\ \/ /\ pc' = "finally"
          /\ err' = "ElementNotFound"
          /\ classes' = classes
       \/ \E c \in ClassValues :
            /\ page < MaxPages \/ StrIn(DISABLED, c)
            /\ classes' = c
            /\ pc' = "test_next"
            /\ err' = err
    /\ UNCHANGED << config, fileVars, LINKS, driver, docIdx, page, sections, secIdx,
                    all_images, global_step, returned, pdfVars, captures, shown >>

\* if "disabled" in classes: break
Old_TestNext ==
    /\ pc = "test_next"
    /\ \/ /\ StrIn(DISABLED, classes)
          /\ pc' = "for"
          /\ docIdx' = docIdx + 1
          /\ classes' = <<>>
       \/ /\ ~StrIn(DISABLED, classes)
          /\ pc' = "click"
          /\ UNCHANGED << docIdx, classes >>
    /\ UNCHANGED << config, fileVars, LINKS, driver, err, page, sections, secIdx,
                    all_images, global_step, returned, pdfVars, logVars >>

\* next_btn.click()
Old_Click ==
    /\ pc = "click"
    /\ ops' = Append(ops, <<"click">>)
    /\ page' = page + 1
    /\ classes' = <<>>
    /\ pc' = "wait"
    /\ UNCHANGED << config, fileVars, LINKS, driver, err, docIdx, sections, secIdx,
                    all_images, global_step, returned, pdfVars, captures, shown >>

\* pil_images = [Image.open(img).convert("RGB") for img in images], one image a step
Old_PdfOpen ==
    /\ pc = "images_to_pdf"
    /\ Len(pil_images) < Len(images)
    /\ LET img == images[Len(pil_images) + 1]
       IN \/ /\ img \notin unreadable
             /\ pil_images' = Append(pil_images, [src |-> img, mode |-> "RGB"])
             /\ UNCHANGED << unreadable, pc, err >>
          \/ /\ unreadable' = unreadable \cup {img}
             /\ pc' = "finally"
             /\ err' = "ImageReadFailure"
             /\ pil_images' = pil_images
    /\ UNCHANGED << config, fileVars, LINKS, driver, loopVars, returned, images,
                    logVars >>

\* pil_images[0].save(pdf_path, save_all=True, append_images=pil_images[1:])
Old_PdfSave ==
    /\ pc = "images_to_pdf"
    /\ Len(pil_images) = Len(images)
    /\ \/ /\ pil_images = <<>>
          /\ pc' = "finally"
          /\ err' = "EmptyInput"
          /\ UNCHANGED << pdf_file, pdf_writes >>
       \/ /\ pil_images # <<>>
          /\ pdf_file' = << <<pil_images[1]>> \o SubSeq(pil_images, 2, Len(pil_images)) >>
          /\ pdf_writes' = pdf_writes + 1
          /\ pc' = "print"
          /\ err' = err
    /\ UNCHANGED << config, pdf_before, LINKS, driver, loopVars, returned, pdfVars,
                    logVars >>

\* print(f"PDF successfully created: {pdf_path}")
Old_Print ==
    /\ pc = "print"
    /\ pc' = "finally"
    /\ UNCHANGED << config, fileVars, LINKS, driver, err, loopVars, returned, pdfVars,
                    logVars >>

\* finally: driver.quit()
Old_Finally ==
    /\ pc = "finally"
    /\ driver' = "quit"
    /\ ops' = Append(ops, <<"quit">>)
    /\ pc' = "exit"
    /\ UNCHANGED << config, fileVars, LINKS, err, loopVars, returned, pdfVars,
                    captures, shown >>

\* main of src/main.py from create_driver() on
OldNext ==
    \/ Old_CreateDriver
    \/ Old_Maximize
    \/ Old_Begin
    \/ Old_For
    \/ Old_Wait
    \/ Old_Find
    \/ Old_Shot
    \/ Old_FindNext
    \/ Old_TestNext
    \/ Old_Click
    \/ Old_PdfOpen
    \/ Old_PdfSave
    \/ Old_Print
    \/ Old_Finally

\* main of src/src/main.py from create_driver() on
NextAfterConfig ==
    \/ Main_CreateDriver
    \/ Main_Maximize
    \/ Collect_Begin
    \/ Collect_For
    \/ Collect_Wait
    \/ Collect_Find
    \/ Collect_Shot
    \/ Collect_FindNext
    \/ Collect_TestNext
    \/ Collect_Click
    \/ Pdf_Open
    \/ Pdf_Save
    \/ Main_Print
    \/ Main_Finally

\* Both entry points hold the same LINKS: the literal of src/main.py, or any
\* mapping that load_config returned.
InitBoth ==
    /\ LINKS \in Mappings \cup {OLD_LINKS}
    /\ config = [exists |-> TRUE, has_links |-> TRUE, links |-> LINKS]
    /\ pdf_before \in { <<>>, <<StalePdf>> }
    /\ pdf_file = pdf_before
    /\ pdf_writes = 0
    /\ driver = "none"
    /\ pc = "create_driver"
    /\ err = "none"
    /\ docIdx = 0
    /\ page = 0
    /\ sections = 0
    /\ secIdx = 0
    /\ all_images = <<>>
    /\ global_step = 0
    /\ classes = <<>>
    /\ returned = FALSE
    /\ images = <<>>
    /\ pil_images = <<>>
    /\ unreadable = {}
    /\ ops = <<>>
    /\ captures = <<>>
    /\ shown = <<>>

\* The runs of the two entry points from the same LINKS and the same browser.
SpecBoth == InitBoth /\ [][OldNext \/ NextAfterConfig]_vars

\* ================================================================= claims

\* The number a zero-padded digit string denotes.
RECURSIVE DigitsValue(_)
DigitsValue(ds) ==
    IF ds = <<>> THEN 0
    ELSE 10 * DigitsValue(SubSeq(ds, 1, Len(ds) - 1)) + ds[Len(ds)]

ImageNumber(path) == DigitsValue(path.stem)

\* The sections the browser showed, listed document by document, page by page,
\* section by section.
PageSections(d, p, n) == [s \in 1..n |-> <<d, p, s>>]

RECURSIVE DocSections(_, _, _)
DocSections(d, pages, upto) ==
    IF upto = 0 THEN <<>>
    ELSE DocSections(d, pages, upto - 1) \o PageSections(d, upto, pages[upto])

RECURSIVE ShownSections(_, _)
ShownSections(sh, upto) ==
    IF upto = 0 THEN <<>>
    ELSE ShownSections(sh, upto - 1) \o DocSections(upto, sh[upto], Len(sh[upto]))

RECURSIVE SumSeq(_)
SumSeq(q) == IF q = <<>> THEN 0 ELSE Head(q) + SumSeq(Tail(q))

\* k_i: the sections document i showed in total across its pages.
DocTotal(d) == SumSeq(shown[d])

TotalShown == SumSeq([d \in 1..Len(shown) |-> DocTotal(d)])

CaptureKeys == [j \in 1..Len(captures) |-> <<captures[j].doc, captures[j].page, captures[j].sec>>]

\* The URLs loaded with driver.get, in order.
IsGet(o) == o[1] = "get"
Gets == [j \in 1..Len(SelectSeq(ops, IsGet)) |-> SelectSeq(ops, IsGet)[j][2]]

LinkUrls == [i \in 1..Len(LINKS) |-> LINKS[i].url]

\* The run has entered collect_images.
Begun == docIdx >= 1

\* C1: when collect_images returns, the list has exactly sum(k_i) paths, its j-th
\* entry is the image numbered j (a 4-digit zero-padded name), and the captures
\* are those of the sections shown, ordered by document (mapping order), page and
\* section, each exactly once.
C1_ResultIsOrderedCaptures ==
    returned =>
        /\ Len(images) = TotalShown
        /\ Len(shown) = Len(LINKS)
        /\ Gets = LinkUrls
        /\ CaptureKeys = ShownSections(shown, Len(shown))
        /\ \A j \in 1..Len(images) :
            /\ ImageNumber(images[j]) = j
            /\ Len(images[j].stem) = 4
            /\ images[j] = captures[j].path

\* Two documents, the first with two pages, all captured and returned.
C1_Witness ==
    /\ returned
    /\ Len(LINKS) = 2
    /\ Len(shown[1]) = 2
    /\ shown[1][1] = 2
    /\ shown[1][2] = 2
    /\ shown[2] = <<1>>
    /\ LINKS[1].name = 2

\* C2: inside collect_images and after it, in failing runs too, the counter is the
\* number of images captured so far plus 1; a capture adds exactly 1 to it, and
\* moving to another document leaves it alone, so numbering continues across
\* documents.
C2_CounterState ==
    Begun =>
        /\ global_step = Len(all_images) + 1
        /\ Len(captures) = Len(all_images)
        /\ \A j \in 1..Len(captures) : ImageNumber(captures[j].path) = j

C2_CounterStep ==
    /\ Len(captures') = Len(captures) + 1 => global_step' = global_step + 1
    /\ (Begun /\ (docIdx' # docIdx \/ pc' = "wait")) => global_step' = global_step

C2_CounterNeverResets == [](C2_CounterState) /\ [][C2_CounterStep]_vars

\* The second document's first image follows the first document's three.
C2_Witness ==
    /\ Len(captures) = 4
    /\ captures[3].doc = 1
    /\ captures[4].doc = 2
    /\ ImageNumber(captures[4].path) = 4
    /\ global_step = 5

\* The browser failed: a step of the session raised.
BrowserErrors == {"WebDriverError", "NavigationTimeout", "ElementNotFound"}

\* C3: once the session exists it is closed before the run ends, whatever step
\* failed after its creation, and it is not used after it was closed.
C3_SessionClosedOnEveryExit ==
    /\ (pc = "exit" /\ driver # "none") => driver = "quit"
    /\ driver = "quit" => ops[Len(ops)] = <<"quit">>

\* C4: a timeout of the wait for the content container, after a load or after a
\* click, ends collect_images: afterwards no URL is loaded, nothing is captured or
\* clicked, collect_images does not return and nothing reaches images_to_pdf.
C4_TimeoutState ==
    err = "NavigationTimeout" =>
        /\ ~returned
        /\ images = <<>>
        /\ pil_images = <<>>
        /\ pdf_file = pdf_before
        /\ pc \in {"finally", "exit"}

C4_TimeoutStep ==
    /\ err = "NavigationTimeout" =>
        /\ ops' = ops \/ ops' = Append(ops, <<"quit">>)
        /\ captures' = captures
        /\ all_images' = all_images
        /\ docIdx' = docIdx
        /\ err' = err
    /\ (pc = "wait" /\ pc' # "find") =>
        /\ err' = "NavigationTimeout"
        /\ pc' = "finally"

C4_TimeoutAbortsRun == [](C4_TimeoutState) /\ [][C4_TimeoutStep]_vars

\* A timeout after a click, with images captured and a document still to come.
C4_Witness ==
    /\ err = "NavigationTimeout"
    /\ pc = "exit"
    /\ page = 2
    /\ Len(captures) >= 1
    /\ docIdx < Len(LINKS)

\* C5: a document whose first page shows no section adds no image, leaves the
\* counter alone and raises nothing; the loop goes on with the next document,
\* which is loaded, and a run that returns has loaded every document in order.
C5_EmptyFirstPageStep ==
    /\ (pc = "find" /\ page = 1 /\ shown' # shown /\ sections' = 0) =>
        /\ all_images' = all_images
        /\ captures' = captures
        /\ global_step' = global_step
        /\ err' = "none"
        /\ pc' = "for"
        /\ docIdx' = docIdx + 1
    /\ (pc = "for" /\ docIdx <= Len(LINKS)) =>
        /\ ops' = Append(ops, <<"get", LINKS[docIdx].url>>)
        /\ pc' = "wait"

C5_EmptyFirstPageState ==
    /\ \A d \in 1..Len(shown) :
        (shown[d] # <<>> /\ shown[d][1] = 0) =>
            /\ \A j \in 1..Len(captures) : captures[j].doc # d
            /\ Len(shown[d]) = 1
    /\ returned => Gets = LinkUrls

C5_EmptyDocumentIsSkipped == [](C5_EmptyFirstPageState) /\ [][C5_EmptyFirstPageStep]_vars

\* An empty first document, then a second document that is captured.
C5_Witness ==
    /\ returned
    /\ Len(shown) = 2
    /\ shown[1] = <<0>>
    /\ Len(captures) = 2
    /\ captures[1].doc = 2
    /\ ImageNumber(captures[1].path) = 1

\* text = before + "disabled" + after, for some before and after.
HasDisabled(text) ==
    \E before \in 0..Len(text) :
        /\ before + Len(DISABLED) <= Len(text)
        /\ \A k \in 1..Len(DISABLED) : text[before + k] = DISABLED[k]

\* C6: after the sections of a page were captured, Next is clicked exactly when
\* its class attribute does not contain "disabled"; when it does, the document's
\* loop ends without a click, a wait or a capture, and the page's sections are
\* already in the result list.
C6_NextStep ==
    /\ pc = "test_next" =>
        /\ pc' = "click" <=> ~HasDisabled(classes)
        /\ HasDisabled(classes) =>
            /\ pc' = "for"
            /\ docIdx' = docIdx + 1
            /\ ops' = ops
            /\ all_images' = all_images
    /\ pc = "click" => ops' = Append(ops, <<"click">>)
    /\ (ops' # ops /\ ops'[Len(ops')] = <<"click">>) => pc = "click"
    /\ Len(captures') > Len(captures) => captures'[Len(captures')].doc = docIdx
    /\ Begun => docIdx' >= docIdx

C6_NextState ==
    pc \in {"find_next", "test_next", "click"} =>
        /\ sections >= 1
        /\ Len(all_images) >= sections
        /\ \A s \in 1..sections :
            LET j == Len(captures) - sections + s
            IN /\ captures[j].doc = docIdx
               /\ captures[j].page = page
               /\ captures[j].sec = s
               /\ all_images[j] = captures[j].path

C6_ClickIffNotDisabled == [](C6_NextState) /\ [][C6_NextStep]_vars

\* A disabled Next control ended the loop of the first document after its second
\* page, with the three sections of its two pages captured.
C6_Witness ==
    /\ pc = "for"
    /\ docIdx = 2
    /\ Len(shown[1]) = 2
    /\ ops[Len(ops)] = <<"find_next">>
    /\ Len(captures) = 3

\* C7: a run that ends with an error has not written the output PDF; the PDF is
\* written only after collect_images returned, having loaded every configured
\* document, and after every image of the list was opened.
C7_NoPdfOnError ==
    /\ err # "none" => (pdf_file = pdf_before /\ pdf_writes = 0)
    /\ pdf_file # pdf_before => pdf_writes = 1
    /\ pdf_writes > 0 =>
        /\ returned
        /\ Gets = LinkUrls
        /\ Len(pil_images) = Len(images)
        /\ \A j \in 1..Len(images) : pil_images[j].src = images[j]
        /\ pdf_file = <<pil_images>>

\* The second image could not be opened: the run ended with the stale file of an
\* earlier run untouched.
C7_Witness ==
    /\ pc = "exit"
    /\ err = "ImageReadFailure"
    /\ Len(images) = 2
    /\ Len(pil_images) = 1
    /\ pdf_file = <<StalePdf>>

\* C8: with the configuration resource absent, load_config raises ConfigNotFound
\* and the run ends with no session created and no session operation issued.
C8_ConfigNotFoundBeforeSession ==
    ~config.exists =>
        /\ driver = "none"
        /\ ops = <<>>
        /\ LINKS = <<>>
        /\ pc \in {"load_config", "exit"}
        /\ pc = "exit" <=> err = "ConfigNotFound"

C8_Witness ==
    /\ ~config.exists
    /\ pc = "exit"
    /\ err = "ConfigNotFound"
    /\ driver = "none"

\* C9: a run in which the browser does not fail and no section is shown (no
\* `links` key, an empty mapping, or documents that all show zero sections) has
\* created the session, got an empty list from collect_images and failed in
\* images_to_pdf with EmptyInput; the output path is untouched and the session is
\* closed.
C9_ZeroCapturesEndInEmptyInput ==
    (pc = "exit" /\ config.exists /\ TotalShown = 0 /\ err \notin BrowserErrors) =>
        /\ returned
        /\ images = <<>>
        /\ Gets = LinkUrls
        /\ err = "EmptyInput"
        /\ pdf_file = pdf_before
        /\ pdf_writes = 0
        /\ driver = "quit"

\* Two documents that both showed zero sections.
C9_Witness ==
    /\ pc = "exit"
    /\ Len(LINKS) = 2
    /\ shown = << <<0>>, <<0>> >>
    /\ err = "EmptyInput"
    /\ driver = "quit"

\* A configuration without a `links` key.
C9_WitnessNoLinks ==
    /\ pc = "exit"
    /\ config.exists
    /\ ~config.has_links
    /\ err = "EmptyInput"

\* C10: images_to_pdf called with an empty list raises EmptyInput and leaves the
\* output path as it was: no file is created, an existing one is not touched.
C10_EmptyListRaises ==
    (images = <<>> /\ pc # "images_to_pdf") =>
        /\ err = "EmptyInput"
        /\ pc = "finally"
        /\ pdf_file = pdf_before
        /\ pdf_writes = 0

C10_Witness ==
    /\ images = <<>>
    /\ pc = "finally"
    /\ err = "EmptyInput"
    /\ pdf_file = <<>>

\* images_to_pdf has returned or raised.
PdfEnded == pc # "images_to_pdf"

\* C11: images_to_pdf on a non-empty list with a missing or unreadable path, at
\* any position, raises ImageReadFailure and leaves the output path as it was;
\* the output is written only after every image of the list was opened.
C11_UnreadableImageRaises ==
    /\ (PdfEnded /\ \E j \in 1..Len(images) : images[j] \in unreadable) =>
        /\ err = "ImageReadFailure"
        /\ pc = "finally"
        /\ pdf_file = pdf_before
        /\ pdf_writes = 0
    /\ pdf_writes > 0 =>
        /\ Len(pil_images) = Len(images)
        /\ \A j \in 1..Len(images) : images[j] \notin unreadable

\* The third of three paths is the unreadable one; the first two were opened.
C11_Witness ==
    /\ pc = "finally"
    /\ err = "ImageReadFailure"
    /\ Len(images) = 3
    /\ images[1] \notin unreadable
    /\ images[2] \notin unreadable
    /\ images[3] \in unreadable
    /\ Len(pil_images) = 2
    /\ pdf_file = pdf_before

\* C12: images_to_pdf on a non-empty list of readable paths writes one PDF with
\* one page per entry, page j being the j-th image converted to RGB, and it never
\* changes the list it was given.
C12_PagesState ==
    (PdfEnded /\ images # <<>> /\ \A j \in 1..Len(images) : images[j] \notin unreadable) =>
        /\ pc = "print"
        /\ err = "none"
        /\ pdf_writes = 1
        /\ Len(pdf_file) = 1
        /\ Len(pdf_file[1]) = Len(images)
        /\ \A j \in 1..Len(images) : pdf_file[1][j] = [src |-> images[j], mode |-> "RGB"]

C12_PagesInListOrder == [](C12_PagesState) /\ [][images' = images]_vars

\* Three pages from a list that is neither sorted nor free of repeats.
C12_Witness ==
    /\ pc = "print"
    /\ images = <<ImgPath(2), ImgPath(1), ImgPath(2)>>
    /\ Len(pdf_file[1]) = 3
    /\ pdf_file[1][2].src = ImgPath(1)

\* C13: when the Next control is absent after the sections of a page were
\* captured, collect_images fails with ElementNotFound and the run is over: no
\* further document is loaded, nothing more is captured, collect_images does not
\* return and no PDF is written.
C13_AbsentState ==
    err = "ElementNotFound" =>
        /\ ~returned
        /\ images = <<>>
        /\ pil_images = <<>>
        /\ pdf_file = pdf_before
        /\ pdf_writes = 0
        /\ pc \in {"finally", "exit"}

C13_AbsentStep ==
    /\ (pc = "find_next" /\ pc' # "test_next") =>
        /\ err' = "ElementNotFound"
        /\ pc' = "finally"
        /\ docIdx' = docIdx
    /\ err = "ElementNotFound" =>
        /\ ops' = ops \/ ops' = Append(ops, <<"quit">>)
        /\ captures' = captures
        /\ docIdx' = docIdx
        /\ err' = err

C13_AbsentNextIsFatal == [](C13_AbsentState) /\ [][C13_AbsentStep]_vars

\* The lookup of the Next control failed with a document still to come.
C13_Witness ==
    /\ pc = "exit"
    /\ err = "ElementNotFound"
    /\ Len(ops) >= 2
    /\ ops[Len(ops) - 1] = <<"find_next">>
    /\ Len(captures) >= 1
    /\ docIdx < Len(LINKS)
    /\ pdf_file = pdf_before

\* C14: load_config returns the mapping stored under `links`, the same entries in
\* the same order; an empty mapping when the resource has no `links` key; and it
\* raises ConfigNotFound when the resource is missing.
C14_LoadConfigResult ==
    pc # "load_config" =>
        /\ ~config.exists =>
            /\ err = "ConfigNotFound"
            /\ pc = "exit"
            /\ LINKS = <<>>
        /\ (config.exists /\ ~config.has_links) =>
            /\ LINKS = <<>>
            /\ err # "ConfigNotFound"
        /\ (config.exists /\ config.has_links) =>
            /\ Len(LINKS) = Len(config.links)
            /\ \A i \in 1..Len(LINKS) :
                /\ LINKS[i].name = config.links[i].name
                /\ LINKS[i].url = config.links[i].url
            /\ err # "ConfigNotFound"

\* A two-entry mapping whose order is not the order of the names.
C14_Witness ==
    /\ pc = "create_driver"
    /\ Len(config.links) = 2
    /\ config.links[1].name = 2
    /\ LINKS[1].name = 2
    /\ LINKS[2].name = 1

----------------------------------------------------------------------------
\* Termination of the pagination loop

\* Control is inside `while True` of some document.
InLoop == pc \in {"wait", "find", "shot", "find_next", "test_next", "click"}

\* The loop is left only by a page without sections, by a disabled Next control
\* or by an exception of a browser step.
C15_ExitStep ==
    (InLoop /\ ~InLoop') =>
        \/ /\ pc' = "for"
           /\ docIdx' = docIdx + 1
           /\ err' = "none"
           /\ \/ pc = "find" /\ sections' = 0
              \/ pc = "test_next" /\ HasDisabled(classes)
        \/ /\ pc' = "finally"
           /\ err' \in {"NavigationTimeout", "ElementNotFound"}
           /\ ~returned'

----------------------------------------------------------------------------
\* Sequential processing without retries

\* The URLs loaded so far are the first URLs of the mapping, one load per entry.
C16_LoadsState ==
    /\ Len(Gets) <= Len(LINKS)
    /\ \A j \in 1..Len(Gets) : Gets[j] = LinkUrls[j]
    /\ InLoop => Len(Gets) = docIdx
    /\ pc = "for" => Len(Gets) = docIdx - 1

\* Captures never go back to an earlier document.
C16_CapturesState ==
    \A j, k \in 1..Len(captures) : j < k => captures[j].doc <= captures[k].doc

\* A URL is loaded only by the for loop, with no error raised, and the for loop
\* moves to the next entry only when the loop of the current one ended by a page
\* without sections or a disabled Next control.
C16_LoadStep ==
    /\ (Len(Gets') # Len(Gets)) =>
            /\ pc = "for"
            /\ err = "none"
            /\ Gets' = Append(Gets, LINKS[docIdx].url)
    /\ (Begun /\ docIdx' # docIdx) =>
            /\ docIdx' = docIdx + 1
            /\ err' = "none"
            /\ \/ pc = "find" /\ sections' = 0
               \/ pc = "test_next" /\ HasDisabled(classes)

\* C16: documents are processed one after the other without retries: every
\* entry of the mapping is loaded at most once, in mapping order; the URL of
\* document i+1 is loaded only after the loop of document i ended normally; and
\* no capture of document i+1 precedes a capture of document i.
C16_SequentialNoRetries ==
    /\ [][C16_LoadStep]_vars
    /\ [](C16_LoadsState /\ C16_CapturesState)

\* Both documents were loaded and both were captured.
C16_Witness ==
    /\ Len(Gets) = 2
    /\ \E j, k \in 1..Len(captures) : captures[j].doc = 1 /\ captures[k].doc = 2

----------------------------------------------------------------------------
\* Wait and settle delay before every section discovery

IsLoadOrClick(o) == o[1] \in {"get", "click"}

\* The operation after a load or a click is the wait for the content container,
\* and what follows a wait is the settle delay or, when the wait failed, the end
\* of the session; a section lookup comes right after a settle delay.
C17_OpsState ==
    \A j \in 1..Len(ops) :
        /\ IsLoadOrClick(ops[j]) =>
              /\ j < Len(ops) => ops[j + 1] = <<"wait">>
              /\ j + 1 < Len(ops) => ops[j + 2] \in {<<"sleep">>, <<"quit">>}
        /\ ops[j] = <<"find_content">> =>
              /\ j > 3
              /\ ops[j - 1] = <<"sleep">>
              /\ ops[j - 2] = <<"wait">>
              /\ IsLoadOrClick(ops[j - 3])
        /\ ops[j] = <<"sleep">> => (j > 1 /\ ops[j - 1] = <<"wait">>)

\* A lookup, a screenshot or a query of the Next control is a step of a page
\* whose wait and settle delay are complete.
C17_LookupStep ==
    (pc \in {"find", "shot", "find_next"} /\ ops' # ops) =>
        \E j \in 1..Len(ops) :
            /\ ops[j] = <<"sleep">>
            /\ \A k \in (j + 1)..Len(ops) : ~IsLoadOrClick(ops[k])

\* C17: after every URL load and every Next click, a successful wait for the
\* content container and then the settle delay come before the next section
\* discovery; no section lookup, screenshot or Next-control query happens between
\* a load or click and the completion of its wait.
C17_WaitBeforeDiscovery ==
    /\ [][C17_LookupStep]_vars
    /\ []C17_OpsState

\* Sections were looked up on a second page, after a click, its wait and the
\* settle delay.
C17_Witness ==
    /\ pc = "shot"
    /\ page = 2
    /\ Len(ops) > 4
    /\ ops[Len(ops) - 4] = <<"click">>
    /\ ops[Len(ops) - 1] = <<"find_content">>

----------------------------------------------------------------------------
\* The state machine of one document

\* The state of document d when the for loop is at entry idx and control at p.
DocStateOf(d, idx, p) ==
    IF idx < d THEN "NotStarted"
    ELSE IF idx > d THEN "Done"
    ELSE CASE p = "for" -> "Loading"
           [] p = "wait" -> "WaitingForContent"
           [] p \in {"find", "shot"} -> "Capturing"
           [] p \in {"find_next", "test_next"} -> "CheckingNext"
           [] p = "click" -> "Advancing"
           [] OTHER -> "Failed"

DocState(d) == DocStateOf(d, docIdx, pc)

\* The transitions of the state machine, with what each requires of the step.
C18_Edge(from, to) ==
    \/ from = to
    \/ from = "NotStarted" /\ to = "Loading"
    \/ from = "Loading" /\ to = "WaitingForContent"
    \/ from = "WaitingForContent" /\ to = "Capturing"
    \/ from = "Capturing" /\ to = "CheckingNext"
    \/ from = "Capturing" /\ to = "Done" /\ pc = "find" /\ sections' = 0
    \/ from = "CheckingNext" /\ to = "Done" /\ HasDisabled(classes)
    \/ from = "CheckingNext" /\ to = "Advancing" /\ ~HasDisabled(classes)
    \/ from = "Advancing" /\ to = "WaitingForContent"
    \/ /\ from \in {"WaitingForContent", "Capturing", "CheckingNext"}
       /\ to = "Failed"
       /\ err' \in {"NavigationTimeout", "ElementNotFound"}
       /\ pc' = "finally"

C18_DocStep ==
    \A d \in 1..Len(LINKS) :
        C18_Edge(DocStateOf(d, docIdx, pc), DocStateOf(d, docIdx', pc'))

\* No document is past its start before collect_images begins, a document that
\* failed ended the run, and the documents after it were never started.
C18_DocState ==
    \A d \in 1..Len(LINKS) :
        /\ ~Begun => DocState(d) = "NotStarted"
        /\ DocState(d) = "Failed" =>
              /\ err \in {"NavigationTimeout", "ElementNotFound"}
              /\ ~returned
              /\ \A e \in (d + 1)..Len(LINKS) : DocState(e) = "NotStarted"

\* C18: the control flow of collect_images for one document follows the state
\* machine: from Loading it takes only Loading -> WaitingForContent -> Capturing
\* -> CheckingNext, CheckingNext -> Done when Next is disabled, CheckingNext ->
\* Advancing -> WaitingForContent when it is not; Done is reached only by zero
\* sections or a disabled Next control, and every other exit is a fatal error.
C18_RefinesStateMachine ==
    /\ [][C18_DocStep]_vars
    /\ []C18_DocState

\* The first document went through Advancing and is Done, the second is being
\* captured.
C18_Witness ==
    /\ Len(LINKS) = 2
    /\ DocState(1) = "Done"
    /\ Len(shown[1]) = 2
    /\ DocState(2) = "Capturing"

----------------------------------------------------------------------------
\* A page without sections ends the document

\* Finding no section ends the loop of the document in the same step: only the
\* two lookups are made, nothing is raised and no image is added.
C19_EmptyPageStep ==
    (pc = "find" /\ shown' # shown /\ sections' = 0) =>
        /\ ops' = ops \o << <<"find_content">>, <<"find_sections">> >>
        /\ err' = "none"
        /\ pc' = "for"
        /\ docIdx' = docIdx + 1
        /\ page' = page
        /\ all_images' = all_images
        /\ captures' = captures

\* An empty page is the last page its document visits, images of the document
\* come from the pages before it, and the Next control is queried only after a
\* screenshot, never after the lookup of the sections.
C19_EmptyPageState ==
    /\ \A d \in 1..Len(shown) : \A p \in 1..Len(shown[d]) :
          shown[d][p] = 0 =>
              /\ p = Len(shown[d])
              /\ \A j \in 1..Len(captures) :
                    captures[j].doc = d => captures[j].page < p
    /\ \A j \in 1..Len(ops) :
          /\ ops[j] = <<"find_next">> => (j > 1 /\ ops[j - 1][1] = "screenshot")
          /\ (ops[j] = <<"find_sections">> /\ j < Len(ops)) =>
                ops[j + 1][1] \in {"screenshot", "get", "quit"}

\* C19: a page without sections, the first or a later one, ends the loop of its
\* document without a query of the Next control: an absent Next control raises
\* nothing there, and pages behind an enabled Next control of that page are not
\* visited and add no image.
C19_EmptyPageEndsDocument ==
    /\ [][C19_EmptyPageStep]_vars
    /\ []C19_EmptyPageState

\* The second page of the first document showed no section; the run went on to
\* the second document without an error.
C19_Witness ==
    /\ Len(shown) = 2
    /\ Len(shown[1]) = 2
    /\ shown[1][1] > 0
    /\ shown[1][2] = 0
    /\ pc = "wait"
    /\ docIdx = 2
    /\ err = "none"

----------------------------------------------------------------------------
\* The two entry points

\* C20: from the same LINKS and with the same browser behaviour, every step one
\* entry point can take the other can take too, with the same session operation
\* logged and the same effect on the list of paths: collect_images of src/main.py
\* and of src/src/main.py issue the same operations and return the same list, and
\* both main functions run collect, assemble and quit in the same order.
C20_SameSteps == [][OldNext /\ NextAfterConfig]_vars

\* A run that captured two documents, wrote the PDF and closed the session.
C20_Witness ==
    /\ pc = "exit"
    /\ err = "none"
    /\ Len(LINKS) = 2
    /\ Gets = LinkUrls
    /\ Len(images) >= 2
    /\ pdf_writes = 1
    /\ ops[Len(ops)] = <<"quit">>

====
